---- MODULE Spec2Model ----
(***************************************************************************)
(* The git chat assistant actor of src/src/lib.rs: the entry points the    *)
(* host invokes (init, the supervisor handlers, the message-server client  *)
(* handlers), the state blob the host keeps between two invocations, and   *)
(* the host calls (spawn, send, shutdown) each invocation makes.           *)
(*                                                                         *)
(* Bytes are modelled by what serde_json reads and writes: a JSON text is  *)
(* the sequence of the members of its top-level object, in textual order.  *)
(* A string built by format! is the sequence of its pieces.                *)
(***************************************************************************)
EXTENDS Integers, Sequences, FiniteSets, TLC

VARIABLES
    state,      \* the state blob the host holds between calls: Option<Vec<u8>>
    phase,      \* "uncreated", "created" (init returned Ok), "failed" (init returned Err)
    spawned,    \* the id the host's spawn returned to init (None before)
    call,       \* the last invocation: entry point and parameters
    prior,      \* the state blob handed to the last invocation
    result,     \* how the last invocation ended: "none", "ok", "err", "panic"
    error,      \* the String of the last invocation's Err
    response,   \* the response the last invocation returned (handle_request)
    accept,     \* the ChannelAccept the last invocation returned (handle_channel_open)
    hostcalls,  \* the host calls of the last invocation, in the order issued
    previous    \* what the invocation before the last one was and how it ended

vars ==
    <<state, phase, spawned, call, prior, result, error, response, accept, hostcalls,
      previous>>

-----------------------------------------------------------------------------
(* Option<String> *)

None == [some |-> FALSE, v |-> ""]

Some(x) == [some |-> TRUE, v |-> x]

(* JSON values: t is the JSON type, v what it holds. An "int" is a number   *)
(* that fits u32, a "float" any other number, a "val" an opaque document.   *)

JNull == [t |-> "null", v |-> ""]

JStr(s) == [t |-> "str", v |-> s]

JInt(s) == [t |-> "int", v |-> s]

JFloat(s) == [t |-> "float", v |-> s]

JVal(s) == [t |-> "val", v |-> s]

JDoc(d) == [t |-> "doc", v |-> d]

JServers(l) == [t |-> "servers", v |-> l]

(* Option<Value> *)
NoValue == [some |-> FALSE, v |-> JNull]

SomeValue(j) == [some |-> TRUE, v |-> j]

(* A JSON text: the members <<key, value>> of its object, in textual order. *)
Json(ms) == [kind |-> "json", members |-> ms]

(* Bytes that are no JSON text. *)
Garbage == [kind |-> "garbage", members |-> <<>>]

(* Option<Vec<u8>>::None *)
NoBytes == [kind |-> "none", members |-> <<>>]

Keys(ms) == {ms[i][1] : i \in 1..Len(ms)}

Count(ms, k) == Cardinality({i \in 1..Len(ms) : ms[i][1] = k})

(* The value of the one member of ms with key k. *)
Member(ms, k) == ms[CHOOSE i \in 1..Len(ms) : ms[i][1] = k][2]

-----------------------------------------------------------------------------
(* Constants of lib.rs *)

CHAT_STATE_MANIFEST_PATH == "/Users/colinrozzi/work/actor-registry/chat-state/manifest.toml"

TASK_MONITOR_MANIFEST_PATH == "https://github.com/colinrozzi/task-monitor-mcp-actor/releases/latest/download/manifest.toml"

GIT_MCP_MANIFEST_PATH == "https://github.com/colinrozzi/git-mcp-actor/releases/latest/download/manifest.toml"

KnownTasks == {"commit", "review", "rebase", "analyze", "cleanup"}

-----------------------------------------------------------------------------
(* GitAssistantConfig and its deserialization *)

ConfigFields ==
    {"current_directory", "task", "model_config", "temperature", "max_tokens",
     "system_prompt", "title", "description", "mcp_servers"}

StringFields == {"current_directory", "task", "system_prompt", "title", "description"}

GitAssistantConfig_default ==
    [current_directory |-> None, task |-> None, model_config |-> NoValue,
     temperature |-> None, max_tokens |-> None, system_prompt |-> None,
     title |-> None, description |-> None, mcp_servers |-> NoValue,
     other |-> <<>>]

(* Whether a member's value has the type its field declares. *)
FieldTypeOk(k, j) ==
    CASE k \in StringFields -> j.t \in {"null", "str"}
      [] k = "temperature" -> j.t \in {"null", "int", "float"}
      [] k = "max_tokens" -> j.t \in {"null", "int"}
      [] OTHER -> TRUE

OptString(ms, k) ==
    IF k \in Keys(ms) /\ Member(ms, k).t # "null" THEN Some(Member(ms, k).v) ELSE None

OptValue(ms, k) ==
    IF k \in Keys(ms) /\ Member(ms, k).t # "null" THEN SomeValue(Member(ms, k)) ELSE NoValue

(* #[serde(flatten)] other: the members no named field consumed. *)
FlattenOther(ms) == SelectSeq(ms, LAMBDA m : m[1] \notin ConfigFields)

(* from_slice::<GitAssistantConfig>: [ok, config] *)
ParseConfig(bytes) ==
    IF /\ bytes.kind = "json"
       /\ \A k \in ConfigFields : Count(bytes.members, k) <= 1
       /\ \A i \in 1..Len(bytes.members) : FieldTypeOk(bytes.members[i][1], bytes.members[i][2])
    THEN [ok |-> TRUE,
          config |->
            [current_directory |-> OptString(bytes.members, "current_directory"),
             task |-> OptString(bytes.members, "task"),
             model_config |-> OptValue(bytes.members, "model_config"),
             temperature |-> OptString(bytes.members, "temperature"),
             max_tokens |-> OptString(bytes.members, "max_tokens"),
             system_prompt |-> OptString(bytes.members, "system_prompt"),
             title |-> OptString(bytes.members, "title"),
             description |-> OptString(bytes.members, "description"),
             mcp_servers |-> OptValue(bytes.members, "mcp_servers"),
             other |-> FlattenOther(bytes.members)]]
    ELSE [ok |-> FALSE, config |-> GitAssistantConfig_default]

-----------------------------------------------------------------------------
(* create_git_optimized_config *)

directory_context(current_directory) ==
    IF current_directory.some
    THEN <<"\n\nWORKING DIRECTORY: ", current_directory.v,
           "\nAll git operations should be performed in this directory.">>
    ELSE <<>>

task_context(task) ==
    IF task.some /\ task.v \in KnownTasks
    THEN <<"\n\nTASK: ", task.v, " STEPS">>
    ELSE <<>>

completion_instruction(task) ==
    IF task.some
    THEN <<"\n\nIMPORTANT: When you have completed your assigned task, you MUST call the 'task_complete' tool">>
    ELSE <<"\n\nNOTE: You have access to a 'task_complete' tool. Use it if the user explicitly asks you">>

default_git_system_prompt(current_directory, task) ==
    <<"You are a Git Task Assistant with access to git tools.">>
        \o directory_context(current_directory)
        \o task_context(task)
        \o completion_instruction(task)

(* The prompt changed to put the task steps before the directory. *)
final_system_prompt_task_first(current_directory, config) ==
    (IF config.system_prompt.some
     THEN <<config.system_prompt.v>>
     ELSE <<"You are a Git Task Assistant with access to git tools.">>)
        \o task_context(config.task)
        \o directory_context(current_directory)
        \o completion_instruction(config.task)

final_system_prompt(current_directory, config) ==
    IF config.system_prompt.some
    THEN <<config.system_prompt.v>>
            \o directory_context(current_directory)
            \o task_context(config.task)
            \o completion_instruction(config.task)
    ELSE default_git_system_prompt(current_directory, config.task)

default_model_config ==
    JVal("{model: claude-sonnet-4-20250514, provider: anthropic}")

(* One descriptor of the tool-server list: an actor-backed server, with the *)
(* management_actor of its init_state when it has one.                      *)
ActorServer(path, init_state) ==
    [actor_id |-> None, manifest_path |-> path, init_state |-> init_state, tools |-> None]

default_mcp_servers(self_id) ==
    JServers(<<ActorServer(GIT_MCP_MANIFEST_PATH, None),
               ActorServer(TASK_MONITOR_MANIFEST_PATH, Some(self_id))>>)

(* The default temperature changed to be the general one for every task. *)
default_temperature_general(task) == "0.7"

default_temperature(task) ==
    CASE task = Some("commit") -> "0.3"
      [] task = Some("review") -> "0.5"
      [] task = Some("rebase") -> "0.2"
      [] task = Some("analyze") -> "0.6"
      [] task = Some("cleanup") -> "0.3"
      [] OTHER -> "0.7"

default_max_tokens == "8192"

default_title(task) ==
    CASE task = Some("commit") -> "Git Commit Assistant"
      [] task = Some("review") -> "Git Code Review Assistant"
      [] task = Some("rebase") -> "Git Rebase Assistant"
      [] task = Some("analyze") -> "Git Analysis Assistant"
      [] task = Some("cleanup") -> "Git Cleanup Assistant"
      [] task.some -> "Git Task Assistant"
      [] OTHER -> "Git Assistant"

default_description(task) ==
    <<"AI assistant for git ", IF task.some THEN task.v ELSE "management", " tasks">>

(* unwrap_or changed to take the default whatever the option holds. *)
unwrap_or_default(opt, default) == default

unwrap_or(opt, default) == IF opt.some THEN opt.v ELSE default

DerivedKeys ==
    {"model_config", "temperature", "max_tokens", "system_prompt", "title",
     "description", "mcp_servers"}

(* The merge changed to insert nothing. *)
merge_other_nothing(other) == <<>>

(* The merge of config.other: a key the document holds already is skipped. *)
merge_other(other) == SelectSeq(other, LAMBDA m : m[1] \notin DerivedKeys)

create_git_optimized_config(self_id, current_directory, config) ==
    [model_config |-> unwrap_or(config.model_config, default_model_config),
     temperature |-> unwrap_or(config.temperature, default_temperature(config.task)),
     max_tokens |-> unwrap_or(config.max_tokens, default_max_tokens),
     system_prompt |-> final_system_prompt(current_directory, config),
     title |-> unwrap_or(config.title, default_title(config.task)),
     description |-> IF config.description.some
                     THEN <<config.description.v>>
                     ELSE default_description(config.task),
     mcp_servers |-> unwrap_or(config.mcp_servers, default_mcp_servers(self_id)),
     other |-> merge_other(config.other)]

-----------------------------------------------------------------------------
(* GitChatState and its encoding *)

StateFields ==
    {"actor_id", "chat_state_actor_id", "original_config", "current_directory", "task"}

(* GitChatState::new changed to keep the default document, not the one it  *)
(* is given.                                                                *)
GitChatState_new_default_config(actor_id, config, current_directory, task) ==
    [actor_id |-> actor_id,
     chat_state_actor_id |-> None,
     original_config |->
         JDoc(create_git_optimized_config(actor_id, None, GitAssistantConfig_default)),
     current_directory |-> current_directory,
     task |-> task]

GitChatState_new(actor_id, config, current_directory, task) ==
    [actor_id |-> actor_id,
     chat_state_actor_id |-> None,
     original_config |-> config,
     current_directory |-> current_directory,
     task |-> task]

set_chat_state_actor_id(self, chat_actor_id) ==
    [self EXCEPT !.chat_state_actor_id = Some(chat_actor_id)]

(* get_chat_state_actor_id changed to answer with an empty id when none is  *)
(* stored.                                                                  *)
get_chat_state_actor_id_or_empty(self) ==
    [ok |-> TRUE,
     id |-> IF self.chat_state_actor_id.some THEN self.chat_state_actor_id.v ELSE "",
     err |-> <<>>]

(* get_chat_state_actor_id: [ok, id, err] *)
get_chat_state_actor_id(self) ==
    IF self.chat_state_actor_id.some
    THEN [ok |-> TRUE, id |-> self.chat_state_actor_id.v, err |-> <<>>]
    ELSE [ok |-> FALSE, id |-> "", err |-> <<"Chat state actor not initialized">>]

OptJson(opt) == IF opt.some THEN JStr(opt.v) ELSE JNull

(* to_vec(&GitChatState): the fields in the order the struct declares them, *)
(* an Option that is None written as null.                                  *)
to_vec_state(s) ==
    Json(<< <<"actor_id", JStr(s.actor_id)>>,
            <<"chat_state_actor_id", OptJson(s.chat_state_actor_id)>>,
            <<"original_config", s.original_config>>,
            <<"current_directory", OptJson(s.current_directory)>>,
            <<"task", OptJson(s.task)>> >>)

StateFieldTypeOk(k, j) ==
    CASE k = "actor_id" -> j.t = "str"
      [] k \in {"chat_state_actor_id", "current_directory", "task"} -> j.t \in {"null", "str"}
      [] OTHER -> TRUE

SerdeError == "<serde_json error>"

(* from_slice::<GitChatState>: [ok, state]. The members may come in any     *)
(* order, an unknown member is skipped, a missing Option is None; a field   *)
(* given twice, a missing actor_id or original_config, or a value of the    *)
(* wrong type is an error.                                                  *)
from_slice_state(bytes) ==
    IF /\ bytes.kind = "json"
       /\ \A k \in StateFields : Count(bytes.members, k) <= 1
       /\ {"actor_id", "original_config"} \subseteq Keys(bytes.members)
       /\ \A i \in 1..Len(bytes.members) :
              StateFieldTypeOk(bytes.members[i][1], bytes.members[i][2])
    THEN [ok |-> TRUE,
          state |->
            [actor_id |-> Member(bytes.members, "actor_id").v,
             chat_state_actor_id |-> OptString(bytes.members, "chat_state_actor_id"),
             original_config |-> Member(bytes.members, "original_config"),
             current_directory |-> OptString(bytes.members, "current_directory"),
             task |-> OptString(bytes.members, "task")]]
    ELSE [ok |-> FALSE, state |-> GitChatState_new("", JNull, None, None)]

-----------------------------------------------------------------------------
(* Host calls, responses, and what one invocation leaves behind *)

NoMessage == ""

(* send(actor_id, bytes), accepted by the host or rejected *)
Send(to, type, message, ok) ==
    [fn |-> "send", to |-> to, type |-> type, message |-> message, config |-> JNull, ok |-> ok]

(* spawn(manifest, Some(init_state)) with init_state = {"config": chat_config} *)
Spawn(manifest, chat_config, ok) ==
    [fn |-> "spawn", to |-> manifest, type |-> "", message |-> NoMessage,
     config |-> chat_config, ok |-> ok]

(* shutdown(None) *)
Shutdown(ok) ==
    [fn |-> "shutdown", to |-> "", type |-> "", message |-> NoMessage, config |-> JNull, ok |-> ok]

NoResponse == [tag |-> "none", actor_id |-> "", message |-> <<>>]

ChatStateActorId(actor_id) == [tag |-> "ChatStateActorId", actor_id |-> actor_id, message |-> <<>>]

Success == [tag |-> "Success", actor_id |-> "", message |-> <<>>]

Error(message) == [tag |-> "Error", actor_id |-> "", message |-> message]

NoAccept == [some |-> FALSE, accepted |-> FALSE, message |-> None]

(* What an invocation returns and does. state is the Option<Vec<u8>> of an  *)
(* Ok; an Err or a panic hands no state back.                               *)
Outcome(st, res, err, resp, acc, calls) ==
    [state |-> st, result |-> res, error |-> err, response |-> resp,
     accept |-> acc, hostcalls |-> calls]

-----------------------------------------------------------------------------
(* Guest::init *)

(* The configuration, directory and task init works with. *)
init_config(state_bytes, self_id) ==
    IF state_bytes.kind # "none"
    THEN IF ParseConfig(state_bytes).ok
         THEN LET config == ParseConfig(state_bytes).config
              IN  [git_config |-> create_git_optimized_config(self_id, config.current_directory, config),
                   current_directory |-> config.current_directory,
                   task |-> config.task]
         ELSE [git_config |-> create_git_optimized_config(self_id, None, GitAssistantConfig_default),
               current_directory |-> None,
               task |-> None]
    ELSE [git_config |-> create_git_optimized_config(self_id, None, GitAssistantConfig_default),
          current_directory |-> None,
          task |-> None]

(* spawn_chat_state_actor: the spawn call it makes *)
spawn_chat_state_actor(chat_config, spawn_ok) ==
    Spawn(CHAT_STATE_MANIFEST_PATH, chat_config, spawn_ok)

(* init changed to log a failed spawn and go on with the state as it is. *)
init_fn_goes_on(state_bytes, self_id, spawn_ok, chat_actor_id) ==
    LET c == init_config(state_bytes, self_id)
        git_state == GitChatState_new(self_id, JDoc(c.git_config), c.current_directory, c.task)
        calls == <<spawn_chat_state_actor(JDoc(c.git_config), spawn_ok)>>
    IN  IF spawn_ok
        THEN Outcome(to_vec_state(set_chat_state_actor_id(git_state, chat_actor_id)),
                     "ok", <<>>, NoResponse, NoAccept, calls)
        ELSE Outcome(to_vec_state(git_state), "ok", <<>>, NoResponse, NoAccept, calls)

(* init, given the host's answer to spawn: spawn_ok, and the id it returns *)
init_fn(state_bytes, self_id, spawn_ok, chat_actor_id) ==
    LET c == init_config(state_bytes, self_id)
        git_state == GitChatState_new(self_id, JDoc(c.git_config), c.current_directory, c.task)
        calls == <<spawn_chat_state_actor(JDoc(c.git_config), spawn_ok)>>
    IN  IF spawn_ok
        THEN Outcome(to_vec_state(set_chat_state_actor_id(git_state, chat_actor_id)),
                     "ok", <<>>, NoResponse, NoAccept, calls)
        ELSE Outcome(NoBytes, "err",
                     <<"Failed to spawn chat state actor: ", "Spawn failed: ", "<host error>">>,
                     NoResponse, NoAccept, calls)

-----------------------------------------------------------------------------
(* SupervisorHandlers *)

(* The payload of a child error: Option<Vec<u8>>. text is the bytes read as *)
(* UTF-8 (from_utf8_lossy); a payload that is the JSON of a ChainEvent has  *)
(* the event's data field, again as text.                                   *)
NoData == [kind |-> "none", text |-> "", data |-> ""]

ChainEventData(text, data) == [kind |-> "chain", text |-> text, data |-> data]

RawData(text) == [kind |-> "raw", text |-> text, data |-> ""]

(* handle_child_error changed to leave the child out of the message of an  *)
(* internal error.                                                          *)
handle_child_error_fn_no_child(st, child, error_type, data) ==
    IF data.kind = "none"
    THEN Outcome(NoBytes, "panic", <<"called Option::unwrap() on a None value">>,
                 NoResponse, NoAccept, <<>>)
    ELSE IF error_type = "Internal"
         THEN IF data.kind = "chain"
              THEN Outcome(NoBytes, "err", <<"Internal error in child: ", data.data>>,
                           NoResponse, NoAccept, <<>>)
              ELSE Outcome(NoBytes, "err",
                           <<"Failed to parse internal error data: ", SerdeError>>,
                           NoResponse, NoAccept, <<>>)
         ELSE Outcome(NoBytes, "err",
                      <<"Other error in child ", child, ": ", data.text>>,
                      NoResponse, NoAccept, <<>>)

(* The unwrap of the payload comes first on both arms, and panics on None. *)
handle_child_error_fn(st, child, error_type, data) ==
    IF data.kind = "none"
    THEN Outcome(NoBytes, "panic", <<"called Option::unwrap() on a None value">>,
                 NoResponse, NoAccept, <<>>)
    ELSE IF error_type = "Internal"
         THEN IF data.kind = "chain"
              THEN Outcome(NoBytes, "err",
                           <<"Internal error in child ", child, ": ", data.data>>,
                           NoResponse, NoAccept, <<>>)
              ELSE Outcome(NoBytes, "err",
                           <<"Failed to parse internal error data: ", SerdeError>>,
                           NoResponse, NoAccept, <<>>)
         ELSE Outcome(NoBytes, "err",
                      <<"Other error in child ", child, ": ", data.text>>,
                      NoResponse, NoAccept, <<>>)

(* handle_child_exit changed to drop the worker id when the child that      *)
(* exited is the stored worker.                                             *)
handle_child_exit_fn_forgets_worker(st, child_id) ==
    IF /\ from_slice_state(st).ok
       /\ from_slice_state(st).state.chat_state_actor_id = Some(child_id)
    THEN Outcome(to_vec_state([from_slice_state(st).state EXCEPT !.chat_state_actor_id = None]),
                 "ok", <<>>, NoResponse, NoAccept, <<>>)
    ELSE Outcome(st, "ok", <<>>, NoResponse, NoAccept, <<>>)

(* handle_child_exit changed to spawn a worker anew. *)
handle_child_exit_fn_respawns(st, child_id) ==
    Outcome(st, "ok", <<>>, NoResponse, NoAccept,
            IF from_slice_state(st).ok
            THEN <<spawn_chat_state_actor(from_slice_state(st).state.original_config, TRUE)>>
            ELSE <<>>)

handle_child_exit_fn(st, child_id) ==
    Outcome(st, "ok", <<>>, NoResponse, NoAccept, <<>>)

(* handle_child_external_stop changed to request shutdown when the child    *)
(* stopped is the stored worker.                                            *)
handle_child_external_stop_fn_cascades(st, child_id) ==
    Outcome(st, "ok", <<>>, NoResponse, NoAccept,
            IF /\ from_slice_state(st).ok
               /\ from_slice_state(st).state.chat_state_actor_id = Some(child_id)
            THEN <<Shutdown(TRUE)>>
            ELSE <<>>)

handle_child_external_stop_fn(st, child_id) ==
    Outcome(st, "ok", <<>>, NoResponse, NoAccept, <<>>)

-----------------------------------------------------------------------------
(* MessageServerClient::handle_send *)

(* The JSON text null, the only text a unit struct deserializes from. *)
JsonNullText == [kind |-> "null", members |-> <<>>]

(* from_slice::<TaskComplete> *)
ParseTaskComplete(bytes) == bytes.kind = "null"

(* handle_send changed to hand back a state built anew, as init builds it   *)
(* before the spawn: the worker id is lost.                                 *)
handle_send_fn_rebuilds_state(st, payload, shutdown_ok) ==
    IF st.kind = "none"
    THEN Outcome(NoBytes, "err", <<"No state available">>, NoResponse, NoAccept, <<>>)
    ELSE IF ~from_slice_state(st).ok
    THEN Outcome(NoBytes, "err", <<"Failed to deserialize git state: ", SerdeError>>,
                 NoResponse, NoAccept, <<>>)
    ELSE IF ~ParseTaskComplete(payload)
    THEN Outcome(NoBytes, "err", <<"Failed to parse message: ", SerdeError>>,
                 NoResponse, NoAccept, <<>>)
    ELSE LET s == from_slice_state(st).state
         IN  Outcome(to_vec_state(GitChatState_new(s.actor_id, s.original_config,
                                                    s.current_directory, s.task)),
                     "ok", <<>>, NoResponse, NoAccept, <<Shutdown(shutdown_ok)>>)

(* handle_send changed to log the completion signal and request nothing. *)
handle_send_fn_no_shutdown(st, payload, shutdown_ok) ==
    IF st.kind = "none"
    THEN Outcome(NoBytes, "err", <<"No state available">>, NoResponse, NoAccept, <<>>)
    ELSE IF ~from_slice_state(st).ok
    THEN Outcome(NoBytes, "err", <<"Failed to deserialize git state: ", SerdeError>>,
                 NoResponse, NoAccept, <<>>)
    ELSE IF ~ParseTaskComplete(payload)
    THEN Outcome(NoBytes, "err", <<"Failed to parse message: ", SerdeError>>,
                 NoResponse, NoAccept, <<>>)
    ELSE Outcome(to_vec_state(from_slice_state(st).state), "ok", <<>>,
                 NoResponse, NoAccept, <<>>)

(* handle_send changed to take any payload for the completion signal. *)
handle_send_fn_any_payload(st, payload, shutdown_ok) ==
    IF st.kind = "none"
    THEN Outcome(NoBytes, "err", <<"No state available">>, NoResponse, NoAccept, <<>>)
    ELSE IF ~from_slice_state(st).ok
    THEN Outcome(NoBytes, "err", <<"Failed to deserialize git state: ", SerdeError>>,
                 NoResponse, NoAccept, <<>>)
    ELSE Outcome(to_vec_state(from_slice_state(st).state), "ok", <<>>,
                 NoResponse, NoAccept, <<Shutdown(shutdown_ok)>>)

handle_send_fn(st, payload, shutdown_ok) ==
    IF st.kind = "none"
    THEN Outcome(NoBytes, "err", <<"No state available">>, NoResponse, NoAccept, <<>>)
    ELSE IF ~from_slice_state(st).ok
    THEN Outcome(NoBytes, "err", <<"Failed to deserialize git state: ", SerdeError>>,
                 NoResponse, NoAccept, <<>>)
    ELSE IF ~ParseTaskComplete(payload)
    THEN Outcome(NoBytes, "err", <<"Failed to parse message: ", SerdeError>>,
                 NoResponse, NoAccept, <<>>)
    ELSE Outcome(to_vec_state(from_slice_state(st).state), "ok", <<>>,
                 NoResponse, NoAccept, <<Shutdown(shutdown_ok)>>)

-----------------------------------------------------------------------------
(* MessageServerClient::handle_request *)

RequestTags == {"GetChatStateActorId", "AddMessage", "StartChat"}

(* from_slice::<GitChatRequest>, an enum tagged by its "type" member:       *)
(* [ok, type, message]. AddMessage needs a message that is a Message.       *)
ParseRequest(data) ==
    IF /\ data.kind = "json"
       /\ Count(data.members, "type") = 1
       /\ Member(data.members, "type").t = "str"
       /\ Member(data.members, "type").v \in RequestTags
       /\ Member(data.members, "type").v = "AddMessage" =>
              /\ Count(data.members, "message") = 1
              /\ Member(data.members, "message").t = "val"
    THEN [ok |-> TRUE,
          type |-> Member(data.members, "type").v,
          message |-> IF Member(data.members, "type").v = "AddMessage"
                      THEN Member(data.members, "message").v
                      ELSE NoMessage]
    ELSE [ok |-> FALSE, type |-> "", message |-> NoMessage]

auto_message(task) ==
    CASE task = "commit" -> "Please analyze the repository and commit any pending changes"
      [] task = "review" -> "Please perform a comprehensive code review of the current changes"
      [] task = "rebase" -> "Please help me clean up the git history through an interactive rebase"
      [] task = "analyze" -> "Please provide a comprehensive analysis of this repository"
      [] task = "cleanup" -> "Please help clean up and organize this repository"
      [] OTHER -> "Please proceed with the assigned task"

(* What a branch of the request match leaves: the response and the host    *)
(* calls made. A branch that returns early returns the same state bytes,   *)
(* to_vec(&git_state), as the end of handle_request does.                  *)
Branch(resp, calls) == [response |-> resp, hostcalls |-> calls]

(* StartChat changed to log a rejected send and answer success all the     *)
(* same.                                                                    *)
StartChat_branch_tolerates(git_state, ok1, ok2) ==
    IF git_state.task.some
    THEN IF get_chat_state_actor_id(git_state).ok
         THEN LET chat_actor_id == get_chat_state_actor_id(git_state).id
                  first == Send(chat_actor_id, "add_message", auto_message(git_state.task.v), ok1)
                  second == Send(chat_actor_id, "generate_completion", NoMessage, ok2)
              IN  IF ok1
                  THEN Branch(Success, <<first, second>>)
                  ELSE Branch(Success, <<first>>)
         ELSE Branch(Error(<<"Chat state actor not available for auto task: ">>
                               \o get_chat_state_actor_id(git_state).err),
                     <<>>)
    ELSE Branch(Success, <<>>)

(* StartChat changed to ask for the worker before it looks at the task. *)
StartChat_branch_worker_first(git_state, ok1, ok2) ==
    IF get_chat_state_actor_id(git_state).ok
    THEN IF git_state.task.some
         THEN LET chat_actor_id == get_chat_state_actor_id(git_state).id
                  first == Send(chat_actor_id, "add_message", auto_message(git_state.task.v), ok1)
                  second == Send(chat_actor_id, "generate_completion", NoMessage, ok2)
              IN  IF ok1
                  THEN IF ok2
                       THEN Branch(Success, <<first, second>>)
                       ELSE Branch(Error(<<"Failed to send auto generation request: ", "<host error>">>),
                                   <<first, second>>)
                  ELSE Branch(Error(<<"Failed to send auto task message: ", "<host error>">>),
                              <<first>>)
         ELSE Branch(Success, <<>>)
    ELSE Branch(Error(<<"Chat state actor not available for auto task: ">>
                          \o get_chat_state_actor_id(git_state).err),
                <<>>)

(* GitChatRequest::StartChat. ok1 and ok2 are the host's answers to the     *)
(* first and to the second send.                                            *)
StartChat_branch(git_state, ok1, ok2) ==
    IF git_state.task.some
    THEN IF get_chat_state_actor_id(git_state).ok
         THEN LET chat_actor_id == get_chat_state_actor_id(git_state).id
                  first == Send(chat_actor_id, "add_message", auto_message(git_state.task.v), ok1)
                  second == Send(chat_actor_id, "generate_completion", NoMessage, ok2)
              IN  IF ok1
                  THEN IF ok2
                       THEN Branch(Success, <<first, second>>)
                       ELSE Branch(Error(<<"Failed to send auto generation request: ", "<host error>">>),
                                   <<first, second>>)
                  ELSE Branch(Error(<<"Failed to send auto task message: ", "<host error>">>),
                              <<first>>)
         ELSE Branch(Error(<<"Chat state actor not available for auto task: ">>
                               \o get_chat_state_actor_id(git_state).err),
                     <<>>)
    ELSE Branch(Success, <<>>)

(* GetChatStateActorId changed to answer with the actor's own id. *)
GetChatStateActorId_branch_own_id(git_state) ==
    IF get_chat_state_actor_id(git_state).ok
    THEN Branch(ChatStateActorId(git_state.actor_id), <<>>)
    ELSE Branch(Error(get_chat_state_actor_id(git_state).err), <<>>)

GetChatStateActorId_branch(git_state) ==
    IF get_chat_state_actor_id(git_state).ok
    THEN Branch(ChatStateActorId(get_chat_state_actor_id(git_state).id), <<>>)
    ELSE Branch(Error(get_chat_state_actor_id(git_state).err), <<>>)

(* AddMessage changed to issue the second send whatever the first one's    *)
(* answer.                                                                  *)
AddMessage_branch_sends_both(git_state, message, ok1, ok2) ==
    IF get_chat_state_actor_id(git_state).ok
    THEN LET chat_actor_id == get_chat_state_actor_id(git_state).id
             first == Send(chat_actor_id, "add_message", message, ok1)
             second == Send(chat_actor_id, "generate_completion", NoMessage, ok2)
         IN  IF ok1 /\ ok2
             THEN Branch(Success, <<first, second>>)
             ELSE Branch(Error(<<"Failed to forward message: ", "<host error>">>),
                         <<first, second>>)
    ELSE Branch(Error(get_chat_state_actor_id(git_state).err), <<>>)

(* AddMessage changed to drop the answer to the second send. *)
AddMessage_branch_ignores_second(git_state, message, ok1, ok2) ==
    IF get_chat_state_actor_id(git_state).ok
    THEN LET chat_actor_id == get_chat_state_actor_id(git_state).id
             first == Send(chat_actor_id, "add_message", message, ok1)
             second == Send(chat_actor_id, "generate_completion", NoMessage, ok2)
         IN  IF ok1
             THEN Branch(Success, <<first, second>>)
             ELSE Branch(Error(<<"Failed to forward message: ", "<host error>">>), <<first>>)
    ELSE Branch(Error(get_chat_state_actor_id(git_state).err), <<>>)

(* AddMessage changed to send the message once more when the host rejects  *)
(* it.                                                                      *)
AddMessage_branch_resends(git_state, message, ok1, ok2) ==
    IF get_chat_state_actor_id(git_state).ok
    THEN LET chat_actor_id == get_chat_state_actor_id(git_state).id
             first == Send(chat_actor_id, "add_message", message, ok1)
             again == Send(chat_actor_id, "add_message", message, ok2)
             second == Send(chat_actor_id, "generate_completion", NoMessage, ok2)
         IN  IF ok1
             THEN IF ok2
                  THEN Branch(Success, <<first, second>>)
                  ELSE Branch(Error(<<"Failed to send generation request: ", "<host error>">>),
                              <<first, second>>)
             ELSE Branch(Error(<<"Failed to forward message: ", "<host error>">>),
                         <<first, again>>)
    ELSE Branch(Error(get_chat_state_actor_id(git_state).err), <<>>)

(* GitChatRequest::AddMessage { message } *)
AddMessage_branch(git_state, message, ok1, ok2) ==
    IF get_chat_state_actor_id(git_state).ok
    THEN LET chat_actor_id == get_chat_state_actor_id(git_state).id
             first == Send(chat_actor_id, "add_message", message, ok1)
             second == Send(chat_actor_id, "generate_completion", NoMessage, ok2)
         IN  IF ok1
             THEN IF ok2
                  THEN Branch(Success, <<first, second>>)
                  ELSE Branch(Error(<<"Failed to send generation request: ", "<host error>">>),
                              <<first, second>>)
             ELSE Branch(Error(<<"Failed to forward message: ", "<host error>">>), <<first>>)
    ELSE Branch(Error(get_chat_state_actor_id(git_state).err), <<>>)

(* handle_request changed to hand back no state with an error response. *)
handle_request_fn_drops_state(st, data, ok1, ok2) ==
    IF st.kind = "none"
    THEN Outcome(NoBytes, "ok", <<>>, Error(<<"No state available">>), NoAccept, <<>>)
    ELSE IF ~from_slice_state(st).ok
    THEN Outcome(NoBytes, "ok", <<>>,
                 Error(<<"Failed to deserialize git state: ", SerdeError>>), NoAccept, <<>>)
    ELSE LET git_state == from_slice_state(st).state
             request == ParseRequest(data)
         IN  IF ~request.ok
             THEN Outcome(NoBytes, "ok", <<>>,
                          Error(<<"Failed to parse request: ", SerdeError>>), NoAccept, <<>>)
             ELSE LET b == CASE request.type = "StartChat" ->
                                   StartChat_branch(git_state, ok1, ok2)
                             [] request.type = "GetChatStateActorId" ->
                                   GetChatStateActorId_branch(git_state)
                             [] OTHER ->
                                   AddMessage_branch(git_state, request.message, ok1, ok2)
                  IN  Outcome(IF b.response.tag = "Error" THEN NoBytes
                              ELSE to_vec_state(git_state),
                              "ok", <<>>, b.response, NoAccept, b.hostcalls)

(* handle_request changed to record a session that started: it drops the   *)
(* task from the state once a start-session got success.                    *)
handle_request_fn_marks_started(st, data, ok1, ok2) ==
    IF st.kind = "none"
    THEN Outcome(NoBytes, "ok", <<>>, Error(<<"No state available">>), NoAccept, <<>>)
    ELSE IF ~from_slice_state(st).ok
    THEN Outcome(NoBytes, "ok", <<>>,
                 Error(<<"Failed to deserialize git state: ", SerdeError>>), NoAccept, <<>>)
    ELSE LET git_state == from_slice_state(st).state
             request == ParseRequest(data)
         IN  IF ~request.ok
             THEN Outcome(to_vec_state(git_state), "ok", <<>>,
                          Error(<<"Failed to parse request: ", SerdeError>>), NoAccept, <<>>)
             ELSE LET b == CASE request.type = "StartChat" ->
                                   StartChat_branch(git_state, ok1, ok2)
                             [] request.type = "GetChatStateActorId" ->
                                   GetChatStateActorId_branch(git_state)
                             [] OTHER ->
                                   AddMessage_branch(git_state, request.message, ok1, ok2)
                  IN  Outcome(IF request.type = "StartChat" /\ b.response = Success
                              THEN to_vec_state([git_state EXCEPT !.task = None])
                              ELSE to_vec_state(git_state),
                              "ok", <<>>, b.response, NoAccept, b.hostcalls)

(* handle_request changed to return the failure of the request's parse as  *)
(* its own failure.                                                         *)
handle_request_fn_fails(st, data, ok1, ok2) ==
    IF st.kind = "none"
    THEN Outcome(NoBytes, "ok", <<>>, Error(<<"No state available">>), NoAccept, <<>>)
    ELSE IF ~from_slice_state(st).ok
    THEN Outcome(NoBytes, "ok", <<>>,
                 Error(<<"Failed to deserialize git state: ", SerdeError>>), NoAccept, <<>>)
    ELSE LET git_state == from_slice_state(st).state
             request == ParseRequest(data)
         IN  IF ~request.ok
             THEN Outcome(NoBytes, "err", <<"Failed to parse request: ", SerdeError>>,
                          NoResponse, NoAccept, <<>>)
             ELSE LET b == CASE request.type = "StartChat" ->
                                   StartChat_branch(git_state, ok1, ok2)
                             [] request.type = "GetChatStateActorId" ->
                                   GetChatStateActorId_branch(git_state)
                             [] OTHER ->
                                   AddMessage_branch(git_state, request.message, ok1, ok2)
                  IN  Outcome(to_vec_state(git_state), "ok", <<>>, b.response, NoAccept,
                              b.hostcalls)

handle_request_fn(st, data, ok1, ok2) ==
    IF st.kind = "none"
    THEN Outcome(NoBytes, "ok", <<>>, Error(<<"No state available">>), NoAccept, <<>>)
    ELSE IF ~from_slice_state(st).ok
    THEN Outcome(NoBytes, "ok", <<>>,
                 Error(<<"Failed to deserialize git state: ", SerdeError>>), NoAccept, <<>>)
    ELSE LET git_state == from_slice_state(st).state
             request == ParseRequest(data)
         IN  IF ~request.ok
             THEN Outcome(to_vec_state(git_state), "ok", <<>>,
                          Error(<<"Failed to parse request: ", SerdeError>>), NoAccept, <<>>)
             ELSE LET b == CASE request.type = "StartChat" ->
                                   StartChat_branch(git_state, ok1, ok2)
                             [] request.type = "GetChatStateActorId" ->
                                   GetChatStateActorId_branch(git_state)
                             [] OTHER ->
                                   AddMessage_branch(git_state, request.message, ok1, ok2)
                  IN  Outcome(to_vec_state(git_state), "ok", <<>>, b.response, NoAccept,
                              b.hostcalls)

-----------------------------------------------------------------------------
(* The channel hooks *)

(* handle_channel_open changed to accept only when it has a state. *)
handle_channel_open_fn_needs_state(st) ==
    Outcome(st, "ok", <<>>, NoResponse,
            [some |-> TRUE, accepted |-> st.kind # "none", message |-> None], <<>>)

handle_channel_open_fn(st) ==
    Outcome(st, "ok", <<>>, NoResponse,
            [some |-> TRUE, accepted |-> TRUE, message |-> None], <<>>)

handle_channel_close_fn(st) ==
    Outcome(st, "ok", <<>>, NoResponse, NoAccept, <<>>)

handle_channel_message_fn(st) ==
    Outcome(st, "ok", <<>>, NoResponse, NoAccept, <<>>)

-----------------------------------------------------------------------------
(* The inputs the host may hand to the entry points *)

SelfIds == {"git-chat-1"}

SpawnIds == {"chat-state-1", "chat-state-2"}

ChildIds == SpawnIds \cup {"another-child"}

ErrorTypes == {"Internal", "OperationTimeout"}

(* The configurations init may be given *)
InitConfigs ==
    << NoBytes,
       Garbage,
       Json(<<>>),
       Json(<< <<"current_directory", JStr("/repo")>>, <<"task", JStr("commit")>> >>),
       Json(<< <<"task", JStr("deploy")>> >>),
       Json(<< <<"task", JStr("review")>>,
               <<"temperature", JFloat("0.9")>>,
               <<"max_tokens", JInt("100")>>,
               <<"system_prompt", JStr("custom prompt")>>,
               <<"title", JStr("custom title")>>,
               <<"description", JStr("custom description")>>,
               <<"model_config", JVal("custom model")>>,
               <<"mcp_servers", JVal("custom servers")>>,
               <<"store_id", JStr("store-1")>> >>),
       Json(<< <<"task", JStr("rebase")>>, <<"max_tokens", JFloat("0.5")>> >>) >>

(* The payloads of a request *)
RequestPayloads ==
    << Json(<< <<"type", JStr("GetChatStateActorId")>> >>),
       Json(<< <<"type", JStr("StartChat")>> >>),
       Json(<< <<"type", JStr("AddMessage")>>, <<"message", JVal("message-1")>> >>),
       Json(<< <<"type", JStr("AddMessage")>>, <<"message", JVal("message-2")>> >>),
       Json(<< <<"type", JStr("AddMessage")>> >>),
       Json(<< <<"type", JStr("Reset")>> >>),
       Json(<< <<"message", JVal("message-1")>> >>),
       Garbage >>

(* The payloads of a direct message *)
SendPayloads ==
    << JsonNullText,
       Json(<< <<"type", JStr("TaskComplete")>> >>),
       Garbage >>

(* The payloads of a child error *)
ErrorPayloads ==
    << NoData,
       ChainEventData("{hash, event_type, data, timestamp}", "worker failed"),
       RawData("not a chain event") >>

(* A state of the actor, as the fields of GitChatState *)
StateOf(chat_state_actor_id, task) ==
    [actor_id |-> "git-chat-1",
     chat_state_actor_id |-> chat_state_actor_id,
     original_config |-> JVal("config"),
     current_directory |-> None,
     task |-> task]

(* The state blobs a host may hold: what to_vec writes for a state, with   *)
(* and without a worker id and a task; the same state with its members in  *)
(* another order, with the null members left out, with a member the struct *)
(* does not have; and bytes that are no GitChatState.                      *)
InputStates ==
    << to_vec_state(StateOf(Some("chat-state-1"), Some("commit"))),
       to_vec_state(StateOf(Some("chat-state-1"), None)),
       to_vec_state(StateOf(None, Some("review"))),
       to_vec_state(StateOf(None, None)),
       Json(<< <<"chat_state_actor_id", JStr("chat-state-2")>>,
               <<"actor_id", JStr("git-chat-1")>>,
               <<"task", JStr("deploy")>>,
               <<"current_directory", JNull>>,
               <<"original_config", JVal("config")>> >>),
       Json(<< <<"actor_id", JStr("git-chat-1")>>,
               <<"original_config", JVal("config")>> >>),
       Json(<< <<"actor_id", JStr("git-chat-1")>>,
               <<"chat_state_actor_id", JStr("chat-state-1")>>,
               <<"original_config", JVal("config")>>,
               <<"current_directory", JNull>>,
               <<"task", JNull>>,
               <<"version", JInt("2")>> >>),
       Json(<< <<"chat_state_actor_id", JStr("chat-state-1")>>,
               <<"original_config", JVal("config")>> >>),
       Json(<< <<"actor_id", JStr("git-chat-1")>>,
               <<"chat_state_actor_id", JInt("7")>>,
               <<"original_config", JVal("config")>> >>),
       Garbage >>

(* The configurations init may be given, built from their parts: a         *)
(* directory or none, a task or none, any set of overrides, pass-through    *)
(* members, and possibly a member of a type its field does not take.        *)
ConfigDirs == {None, Some("/repo")}

ConfigTasks ==
    {None, Some("commit"), Some("review"), Some("rebase"), Some("analyze"),
     Some("cleanup"), Some("deploy")}

OverrideKeys ==
    <<"model_config", "temperature", "max_tokens", "system_prompt", "title",
      "description", "mcp_servers">>

(* The sets of overrides tried: none, each one alone, all but one, all. *)
OverrideSets ==
    {S \in SUBSET {OverrideKeys[i] : i \in 1..Len(OverrideKeys)} :
        Cardinality(S) <= 1 \/ Cardinality(S) >= Len(OverrideKeys) - 1}

OverrideValue(k) ==
    CASE k = "model_config" -> JVal("custom model")
      [] k = "temperature" -> JFloat("0.9")
      [] k = "max_tokens" -> JInt("100")
      [] k = "system_prompt" -> JStr("custom prompt")
      [] k = "title" -> JStr("custom title")
      [] k = "description" -> JStr("custom description")
      [] OTHER -> JVal("custom servers")

ConfigExtras ==
    { <<>>,
      << <<"store_id", JStr("store-1")>> >>,
      << <<"store_id", JStr("store-1")>>, <<"conversation_id", JNull>> >> }

OptMember(k, opt) == IF opt.some THEN << <<k, JStr(opt.v)>> >> ELSE <<>>

ConfigBytes(dir, task, overrides, extra, ill_typed) ==
    LET keys == SelectSeq(OverrideKeys, LAMBDA k : k \in overrides)
    IN  Json(OptMember("current_directory", dir)
             \o OptMember("task", task)
             \o [i \in 1..Len(keys) |-> <<keys[i], OverrideValue(keys[i])>>]
             \o extra
             \o (IF ill_typed THEN << <<"max_tokens", JStr("many")>> >> ELSE <<>>))

(* Every configuration init is tried with: none, and each one built. *)
ConfigInputs ==
    {NoBytes} \cup
    {ConfigBytes(dir, task, overrides, extra, ill_typed) :
        dir \in ConfigDirs, task \in ConfigTasks, overrides \in OverrideSets,
        extra \in ConfigExtras, ill_typed \in BOOLEAN}

-----------------------------------------------------------------------------
(* The host invoking the entry points, one invocation at a time *)

NoCall ==
    [op |-> "none", self_id |-> "", bytes |-> NoBytes, child |-> "",
     error_type |-> "", data |-> NoData]

(* The answers the host gives to the spawn, the sends and the shutdown of   *)
(* an invocation are part of its host calls, not of its parameters.         *)
Call(op, self_id, bytes, child, error_type, data) ==
    [op |-> op, self_id |-> self_id, bytes |-> bytes, child |-> child,
     error_type |-> error_type, data |-> data]

Rejected(calls) == \E i \in 1..Len(calls) : calls[i].fn = "send" /\ ~calls[i].ok

(* The summary kept of an invocation once the next one is made: what it    *)
(* was, how it was answered, and whether the child it was about is the      *)
(* worker the state handed to it stores.                                    *)
Summary(c, resp, calls) ==
    [op |-> c.op,
     type |-> IF c.op = "handle_request" /\ ParseRequest(c.bytes).ok
              THEN ParseRequest(c.bytes).type ELSE "",
     tag |-> resp.tag,
     rejected |-> Rejected(calls),
     worker |-> /\ c.child # ""
                /\ from_slice_state(prior).ok
                /\ from_slice_state(prior).state.chat_state_actor_id = Some(c.child)]

(* The host records what the invocation returned: the state of an Ok       *)
(* replaces the one it held; an Err or a panic returns none, and the host   *)
(* holds what it held.                                                      *)
Returned(c, out) ==
    /\ call' = c
    /\ prior' = state
    /\ state' = IF out.result = "ok" THEN out.state ELSE state
    /\ result' = out.result
    /\ error' = out.error
    /\ response' = out.response
    /\ accept' = out.accept
    /\ hostcalls' = out.hostcalls
    /\ previous' = Summary(call, response, hostcalls)

Init ==
    /\ state = NoBytes
    /\ phase = "uncreated"
    /\ spawned = None
    /\ call = NoCall
    /\ prior = NoBytes
    /\ result = "none"
    /\ error = <<>>
    /\ response = NoResponse
    /\ accept = NoAccept
    /\ hostcalls = <<>>
    /\ previous = Summary(NoCall, NoResponse, <<>>)

(* An actor the host runs with a state blob it holds from elsewhere: the   *)
(* entry points take whatever bytes the host hands them.                    *)
InitAny ==
    \/ Init
    \/ /\ \E i \in 1..Len(InputStates) : state = InputStates[i]
       /\ phase = "created"
       /\ spawned = None
       /\ call = NoCall
       /\ prior = NoBytes
       /\ result = "none"
       /\ error = <<>>
       /\ response = NoResponse
       /\ accept = NoAccept
       /\ hostcalls = <<>>
       /\ previous = Summary(NoCall, NoResponse, <<>>)

init ==
    /\ phase = "uncreated"
    /\ \E i \in 1..Len(InitConfigs), self_id \in SelfIds, spawn_ok \in BOOLEAN,
          chat_actor_id \in SpawnIds :
          /\ Returned(Call("init", self_id, InitConfigs[i], "", "", NoData),
                      init_fn(InitConfigs[i], self_id, spawn_ok, chat_actor_id))
          /\ phase' = IF spawn_ok THEN "created" ELSE "failed"
          /\ spawned' = IF spawn_ok THEN Some(chat_actor_id) ELSE None

handle_child_error ==
    /\ phase # "failed"
    /\ \E child \in ChildIds, error_type \in ErrorTypes, i \in 1..Len(ErrorPayloads) :
          Returned(Call("handle_child_error", "", NoBytes, child, error_type,
                        ErrorPayloads[i]),
                   handle_child_error_fn(state, child, error_type, ErrorPayloads[i]))
    /\ UNCHANGED <<phase, spawned>>

handle_child_exit ==
    /\ phase # "failed"
    /\ \E child_id \in ChildIds :
          Returned(Call("handle_child_exit", "", NoBytes, child_id, "", NoData),
                   handle_child_exit_fn(state, child_id))
    /\ UNCHANGED <<phase, spawned>>

handle_child_external_stop ==
    /\ phase # "failed"
    /\ \E child_id \in ChildIds :
          Returned(Call("handle_child_external_stop", "", NoBytes, child_id, "", NoData),
                   handle_child_external_stop_fn(state, child_id))
    /\ UNCHANGED <<phase, spawned>>

handle_send ==
    /\ phase # "failed"
    /\ \E i \in 1..Len(SendPayloads), shutdown_ok \in BOOLEAN :
          Returned(Call("handle_send", "", SendPayloads[i], "", "", NoData),
                   handle_send_fn(state, SendPayloads[i], shutdown_ok))
    /\ UNCHANGED <<phase, spawned>>

handle_request ==
    /\ phase # "failed"
    /\ \E i \in 1..Len(RequestPayloads), ok1 \in BOOLEAN, ok2 \in BOOLEAN :
          Returned(Call("handle_request", "", RequestPayloads[i], "", "", NoData),
                   handle_request_fn(state, RequestPayloads[i], ok1, ok2))
    /\ UNCHANGED <<phase, spawned>>

handle_channel_open ==
    /\ phase # "failed"
    /\ \E i \in 1..Len(SendPayloads) :
          Returned(Call("handle_channel_open", "", SendPayloads[i], "", "", NoData),
                   handle_channel_open_fn(state))
    /\ UNCHANGED <<phase, spawned>>

handle_channel_close ==
    /\ phase # "failed"
    /\ Returned(Call("handle_channel_close", "", NoBytes, "", "", NoData),
                handle_channel_close_fn(state))
    /\ UNCHANGED <<phase, spawned>>

handle_channel_message ==
    /\ phase # "failed"
    /\ \E i \in 1..Len(SendPayloads) :
          Returned(Call("handle_channel_message", "", SendPayloads[i], "", "", NoData),
                   handle_channel_message_fn(state))
    /\ UNCHANGED <<phase, spawned>>

Next ==
    \/ init
    \/ handle_child_error
    \/ handle_child_exit
    \/ handle_child_external_stop
    \/ handle_send
    \/ handle_request
    \/ handle_channel_open
    \/ handle_channel_close
    \/ handle_channel_message

Spec == Init /\ [][Next]_vars

SpecAny == InitAny /\ [][Next]_vars

(* init, over the configurations built from their parts *)
init_configured ==
    /\ phase = "uncreated"
    /\ \E bytes \in ConfigInputs, self_id \in SelfIds, spawn_ok \in BOOLEAN,
          chat_actor_id \in SpawnIds :
          /\ Returned(Call("init", self_id, bytes, "", "", NoData),
                      init_fn(bytes, self_id, spawn_ok, chat_actor_id))
          /\ phase' = IF spawn_ok THEN "created" ELSE "failed"
          /\ spawned' = IF spawn_ok THEN Some(chat_actor_id) ELSE None

NextConfig == init_configured

(* The creation of the actor alone, over every configuration *)
SpecConfig == Init /\ [][NextConfig]_vars

-----------------------------------------------------------------------------
(* What the properties below read off a state *)

Decodable(bytes) == from_slice_state(bytes).ok

Decoded(bytes) == from_slice_state(bytes).state

(* The worker id a state blob stores *)
WorkerOf(bytes) == Decoded(bytes).chat_state_actor_id

Sends == SelectSeq(hostcalls, LAMBDA h : h.fn = "send")

Shutdowns == SelectSeq(hostcalls, LAMBDA h : h.fn = "shutdown")

Spawns == SelectSeq(hostcalls, LAMBDA h : h.fn = "spawn")

(* The last invocation was handle_request, its state decoded and its        *)
(* payload parsed as a request of this type.                                *)
Handled(type) ==
    /\ call.op = "handle_request"
    /\ Decodable(prior)
    /\ ParseRequest(call.bytes).ok
    /\ ParseRequest(call.bytes).type = type

Embeds(message, piece) == \E i \in 1..Len(message) : message[i] = piece

-----------------------------------------------------------------------------
(* C1. Set-once worker id: after a successful init, whatever entry points   *)
(* the host invokes and whatever it answers to the sends, the state the     *)
(* host holds decodes and its worker id is the id spawn returned to init.   *)
SetOnceWorkerId ==
    phase = "created" => Decodable(state) /\ WorkerOf(state) = spawned /\ spawned.some

(* A completion signal handled after an add-message whose send was rejected *)
SetOnceWorkerId_Witness ==
    /\ phase = "created"
    /\ previous.op = "handle_request"
    /\ previous.rejected
    /\ call.op = "handle_send"
    /\ result = "ok"
    /\ WorkerOf(state) = spawned

(* C2. Fail-fast ordering: in a handle_request call, a generate_completion  *)
(* send comes right after an accepted add_message send to the same actor,   *)
(* and after a rejected add_message send there is no generate_completion    *)
(* send.                                                                    *)
FailFastOrdering ==
    call.op = "handle_request" =>
        /\ \A i \in 1..Len(hostcalls) :
              hostcalls[i].type = "generate_completion" =>
                  /\ i > 1
                  /\ hostcalls[i - 1].fn = "send"
                  /\ hostcalls[i - 1].type = "add_message"
                  /\ hostcalls[i - 1].ok
                  /\ hostcalls[i - 1].to = hostcalls[i].to
        /\ (\E j \in 1..Len(hostcalls) :
               hostcalls[j].type = "add_message" /\ ~hostcalls[j].ok) =>
              \A i \in 1..Len(hostcalls) : hostcalls[i].type # "generate_completion"

(* An add-message whose add_message send the host rejected *)
FailFastOrdering_Witness ==
    /\ Handled("AddMessage")
    /\ Len(hostcalls) = 1
    /\ hostcalls[1].type = "add_message"
    /\ ~hostcalls[1].ok

(* C3. Cascade on worker exit, as claimed: handle_child_exit for the stored *)
(* worker id requests shutdown exactly once, and for any other child id     *)
(* requests none.                                                           *)
CascadeOnWorkerExit ==
    (call.op = "handle_child_exit" /\ Decodable(prior)) =>
        IF WorkerOf(prior) = Some(call.child)
        THEN Len(Shutdowns) = 1
        ELSE Len(Shutdowns) = 0

(* C4. Worker errors are always fatal, as claimed: handle_child_error       *)
(* returns a failure result for every error kind, with or without payload.  *)
ChildErrorReturnsFailure ==
    call.op = "handle_child_error" => result = "err"

(* The text the claim C5 calls extracted: the data field of the chain event *)
(* for an internal error, the raw payload for any other.                    *)
ExtractedText ==
    IF call.error_type = "Internal" THEN call.data.data ELSE call.data.text

(* C5, as claimed: the failure handle_child_error returns always embeds the *)
(* child id and the extracted text.                                         *)
ChildErrorAlwaysEmbeds ==
    (call.op = "handle_child_error" /\ result = "err") =>
        Embeds(error, call.child) /\ Embeds(error, ExtractedText)

(* C5, amended: a failure handle_child_error returns embeds the child id    *)
(* and the extracted text when the error is internal and its payload is a   *)
(* chain event, or when the error is of another kind; for an internal error *)
(* whose payload is no chain event it is the parse failure, which embeds no *)
(* child id.                                                                *)
ChildErrorMessage ==
    (call.op = "handle_child_error" /\ result = "err") =>
        /\ call.data.kind # "none"
        /\ (call.error_type = "Internal" /\ call.data.kind = "chain") =>
              /\ Embeds(error, call.child)
              /\ Embeds(error, call.data.data)
              /\ error[1] = "Internal error in child "
        /\ (call.error_type = "Internal" /\ call.data.kind # "chain") =>
              /\ ~Embeds(error, call.child)
              /\ error[1] = "Failed to parse internal error data: "
        /\ call.error_type # "Internal" =>
              /\ Embeds(error, call.child)
              /\ Embeds(error, call.data.text)
              /\ error[1] = "Other error in child "

(* An internal error of the worker whose payload is a chain event *)
ChildErrorMessage_Witness ==
    /\ call.op = "handle_child_error"
    /\ call.error_type = "Internal"
    /\ call.data.kind = "chain"
    /\ phase = "created"
    /\ Some(call.child) = spawned
    /\ result = "err"

(* C6. Creation is all-or-nothing: init makes one spawn call; when the host *)
(* rejects it, init returns a failure and the host holds no state; a state  *)
(* init returns stores the id spawn returned; and no state the host holds   *)
(* is without a worker id.                                                  *)
CreationAllOrNothing ==
    /\ call.op = "init" =>
          /\ Len(hostcalls) = 1
          /\ hostcalls[1].fn = "spawn"
          /\ ~hostcalls[1].ok => (result = "err" /\ state = NoBytes /\ phase = "failed")
          /\ result = "ok" =>
                /\ hostcalls[1].ok
                /\ Decodable(state)
                /\ Decoded(state).actor_id = call.self_id
                /\ WorkerOf(state).some
                /\ WorkerOf(state) = spawned
    /\ state.kind # "none" => (Decodable(state) /\ WorkerOf(state).some)

(* An init whose spawn the host rejected *)
CreationAllOrNothing_Witness ==
    /\ call.op = "init"
    /\ result = "err"
    /\ ~hostcalls[1].ok

NamesMissingWorker(message) == message = <<"Chat state actor not initialized">>

(* The request is query-worker-id. *)
IsQueryWorkerId ==
    /\ call.op = "handle_request"
    /\ ParseRequest(call.bytes).ok
    /\ ParseRequest(call.bytes).type = "GetChatStateActorId"

(* C8, as claimed: query-worker-id answers with the stored worker id and no *)
(* send when the state holds one, and in every other case with an error     *)
(* whose message names the missing worker id.                               *)
QueryWorkerIdNamesWorker ==
    IsQueryWorkerId =>
        IF Decodable(prior) /\ WorkerOf(prior).some
        THEN response = ChatStateActorId(WorkerOf(prior).v) /\ Len(Sends) = 0
        ELSE response.tag = "Error" /\ NamesMissingWorker(response.message)

(* C8, amended: query-worker-id answers with the stored worker id when the  *)
(* state holds one; with an error naming the missing worker id when the     *)
(* state decodes and holds none; and with an error about the state, not the *)
(* worker id, when there is no state or it does not decode. It issues no    *)
(* host call in any of these cases.                                         *)
QueryWorkerId ==
    IsQueryWorkerId =>
        /\ result = "ok"
        /\ Len(hostcalls) = 0
        /\ (Decodable(prior) /\ WorkerOf(prior).some) =>
              response = ChatStateActorId(WorkerOf(prior).v)
        /\ (Decodable(prior) /\ ~WorkerOf(prior).some) =>
              response.tag = "Error" /\ NamesMissingWorker(response.message)
        /\ prior.kind = "none" =>
              response = Error(<<"No state available">>)
        /\ (prior.kind # "none" /\ ~Decodable(prior)) =>
              /\ response.tag = "Error"
              /\ response.message[1] = "Failed to deserialize git state: "

(* query-worker-id on a state that decodes and holds no worker id *)
QueryWorkerId_Witness ==
    /\ IsQueryWorkerId
    /\ Decodable(prior)
    /\ ~WorkerOf(prior).some
    /\ response.tag = "Error"

(* C9. Forward failure is recoverable: an add-message one of whose sends    *)
(* the host rejected gets an error response and leaves the host with the    *)
(* state it had; and the add-message after it, its sends accepted, gets     *)
(* success.                                                                 *)
ForwardFailureRecoverable ==
    /\ (Handled("AddMessage") /\ Rejected(hostcalls)) =>
          /\ result = "ok"
          /\ response.tag = "Error"
          /\ Decodable(state)
          /\ Decoded(state) = Decoded(prior)
    /\ (/\ previous.op = "handle_request"
        /\ previous.type = "AddMessage"
        /\ previous.rejected
        /\ call.op = "handle_request"
        /\ ParseRequest(call.bytes).ok
        /\ ParseRequest(call.bytes).type = "AddMessage"
        /\ ~Rejected(hostcalls)) =>
          /\ Len(Sends) = 2
          /\ response = Success

(* An add-message that succeeds right after one whose send was rejected *)
ForwardFailureRecoverable_Witness ==
    /\ previous.op = "handle_request"
    /\ previous.type = "AddMessage"
    /\ previous.rejected
    /\ Handled("AddMessage")
    /\ response = Success

(* C10. Append and generate are paired: an add-message gets success exactly *)
(* when it issued two sends, an add_message with the request's message and  *)
(* then a generate_completion, and the host accepted both.                  *)
AppendGeneratePaired ==
    Handled("AddMessage") =>
        (response = Success <=>
            /\ Len(hostcalls) = 2
            /\ hostcalls[1].fn = "send"
            /\ hostcalls[1].type = "add_message"
            /\ hostcalls[1].message = ParseRequest(call.bytes).message
            /\ hostcalls[1].ok
            /\ hostcalls[2].fn = "send"
            /\ hostcalls[2].type = "generate_completion"
            /\ hostcalls[2].ok)

(* An add-message answered with success *)
AppendGeneratePaired_Witness ==
    /\ Handled("AddMessage")
    /\ response = Success
    /\ Len(Sends) = 2

(* The bytes are what to_vec writes for the state they decode to. *)
Canonical(bytes) == Decodable(bytes) /\ bytes = to_vec_state(Decoded(bytes))

(* The last invocation was a request that needs the worker: an add-message, *)
(* or a start-session on a state with a task.                               *)
NeedsWorker ==
    \/ Handled("AddMessage")
    \/ Handled("StartChat") /\ Decoded(prior).task.some

(* C11. Precondition error instead of crash: an add-message, or a           *)
(* start-session with a task set, handled on a state whose worker id is     *)
(* unset returns normally with an error response that names the worker that *)
(* is not initialized, issues no host call, and hands back the state it was *)
(* given.                                                                   *)
PreconditionError ==
    (NeedsWorker /\ ~WorkerOf(prior).some) =>
        /\ result = "ok"
        /\ response.tag = "Error"
        /\ Embeds(response.message, "Chat state actor not initialized")
        /\ Len(hostcalls) = 0
        /\ Decodable(state)
        /\ Decoded(state) = Decoded(prior)
        /\ Canonical(prior) => state = prior

(* A start-session with a task set on a state without a worker id *)
PreconditionError_Witness ==
    /\ Handled("StartChat")
    /\ Decoded(prior).task.some
    /\ ~WorkerOf(prior).some
    /\ response.tag = "Error"

(* C12. start-session surfaces send failures: on a state with a task and a  *)
(* worker id it sends the task's auto message and then, that send accepted, *)
(* a generate_completion; when the host rejects either send the response is *)
(* an error and the state is the one it was given; when it accepts both the *)
(* response is success.                                                     *)
StartSessionSurfacesFailures ==
    (Handled("StartChat") /\ Decoded(prior).task.some /\ WorkerOf(prior).some) =>
        /\ result = "ok"
        /\ Len(hostcalls) >= 1
        /\ hostcalls[1] = Send(WorkerOf(prior).v, "add_message",
                               auto_message(Decoded(prior).task.v), hostcalls[1].ok)
        /\ Rejected(hostcalls) => response.tag = "Error"
        /\ ~Rejected(hostcalls) =>
              /\ response = Success
              /\ Len(hostcalls) = 2
              /\ hostcalls[2] = Send(WorkerOf(prior).v, "generate_completion", NoMessage, TRUE)
        /\ Decodable(state)
        /\ Decoded(state) = Decoded(prior)
        /\ Canonical(prior) => state = prior

(* A start-session whose generate_completion send the host rejected *)
StartSessionSurfacesFailures_Witness ==
    /\ Handled("StartChat")
    /\ Decoded(prior).task.some
    /\ Len(hostcalls) = 2
    /\ hostcalls[1].ok
    /\ ~hostcalls[2].ok
    /\ response.tag = "Error"

(* C13. Completion signal: handle_send with a state that decodes and a      *)
(* payload that is the completion signal makes one host call, a shutdown    *)
(* request, whatever the host answers to it, and hands back the state it    *)
(* was given.                                                               *)
CompletionSignal ==
    (call.op = "handle_send" /\ Decodable(prior) /\ ParseTaskComplete(call.bytes)) =>
        /\ result = "ok"
        /\ Len(hostcalls) = 1
        /\ hostcalls[1].fn = "shutdown"
        /\ Decodable(state)
        /\ Decoded(state) = Decoded(prior)
        /\ Canonical(prior) => state = prior

(* A completion signal handled by an actor with a worker *)
CompletionSignal_Witness ==
    /\ call.op = "handle_send"
    /\ ParseTaskComplete(call.bytes)
    /\ Decodable(prior)
    /\ WorkerOf(prior).some
    /\ Len(Shutdowns) = 1

(* C14. Unrecognized direct message: handle_send with a payload that is not *)
(* the completion signal returns a failure, makes no host call, and the     *)
(* host holds the state it held; when the state decodes the failure is the  *)
(* failure to parse the message.                                            *)
UnrecognizedDirectMessage ==
    (call.op = "handle_send" /\ ~ParseTaskComplete(call.bytes)) =>
        /\ result = "err"
        /\ Len(hostcalls) = 0
        /\ state = prior
        /\ Decodable(prior) => error[1] = "Failed to parse message: "

(* A JSON object sent as a direct message to an actor with a worker *)
UnrecognizedDirectMessage_Witness ==
    /\ call.op = "handle_send"
    /\ call.bytes.kind = "json"
    /\ Decodable(prior)
    /\ WorkerOf(prior).some
    /\ result = "err"

(* C15. External stop does not cascade: handle_child_external_stop, for any *)
(* child id, returns the bytes it was given and makes no host call.         *)
ExternalStopNoCascade ==
    call.op = "handle_child_external_stop" =>
        /\ result = "ok"
        /\ state = prior
        /\ Len(hostcalls) = 0

(* The external stop of the stored worker *)
ExternalStopNoCascade_Witness ==
    /\ call.op = "handle_child_external_stop"
    /\ Decodable(prior)
    /\ WorkerOf(prior) = Some(call.child)
    /\ result = "ok"

(* C16. Propagation policy, as claimed: an invocation ends in a failure     *)
(* only when it is init with its spawn rejected or handle_child_error.      *)
PropagationPolicy ==
    result \in {"err", "panic"} =>
        \/ call.op = "init" /\ ~hostcalls[1].ok
        \/ call.op = "handle_child_error"

(* C17. handle_request always answers: when the state decodes, it returns   *)
(* normally, whatever the payload and whatever the host answers to the      *)
(* sends, with a response that is a worker id, a success or an error.       *)
AlwaysAnswers ==
    (call.op = "handle_request" /\ Decodable(prior)) =>
        /\ result = "ok"
        /\ response.tag \in {"ChatStateActorId", "Success", "Error"}

(* Bytes that are no JSON handled as a request on a state without a worker *)
AlwaysAnswers_Witness ==
    /\ call.op = "handle_request"
    /\ call.bytes = Garbage
    /\ Decodable(prior)
    /\ ~WorkerOf(prior).some
    /\ response.tag = "Error"

(* The configuration init derived the document from: the one its bytes     *)
(* parse to, the default one when it was given none or bytes that do not    *)
(* parse.                                                                   *)
ConfigGiven == ParseConfig(call.bytes).config

(* The document init derived, as handed to spawn. *)
Document == hostcalls[1].config.v

(* The fields of the document an override sets as it is. *)
PlainOverrides ==
    /\ ConfigGiven.model_config.some => Document.model_config = ConfigGiven.model_config.v
    /\ ConfigGiven.temperature.some => Document.temperature = ConfigGiven.temperature.v
    /\ ConfigGiven.max_tokens.some => Document.max_tokens = ConfigGiven.max_tokens.v
    /\ ConfigGiven.title.some => Document.title = ConfigGiven.title.v
    /\ ConfigGiven.description.some => Document.description = <<ConfigGiven.description.v>>
    /\ ConfigGiven.mcp_servers.some => Document.mcp_servers = ConfigGiven.mcp_servers.v

(* The fields of the document without an override hold the task's default. *)
Defaults ==
    /\ ~ConfigGiven.model_config.some => Document.model_config = default_model_config
    /\ ~ConfigGiven.temperature.some =>
          Document.temperature = default_temperature(ConfigGiven.task)
    /\ ~ConfigGiven.max_tokens.some => Document.max_tokens = default_max_tokens
    /\ ~ConfigGiven.system_prompt.some =>
          Document.system_prompt =
              default_git_system_prompt(ConfigGiven.current_directory, ConfigGiven.task)
    /\ ~ConfigGiven.title.some => Document.title = default_title(ConfigGiven.task)
    /\ ~ConfigGiven.description.some =>
          Document.description = default_description(ConfigGiven.task)
    /\ ~ConfigGiven.mcp_servers.some =>
          Document.mcp_servers = default_mcp_servers(call.self_id)

(* C18, as claimed: every override, the system prompt included, is the      *)
(* value of its field in the document, and a field without an override      *)
(* holds the task's default.                                                *)
OverridesUnchanged ==
    call.op = "init" =>
        /\ PlainOverrides
        /\ ConfigGiven.system_prompt.some =>
              Document.system_prompt = <<ConfigGiven.system_prompt.v>>
        /\ Defaults

(* C18, amended: an override of the model config, temperature, max-tokens,  *)
(* title, description or tool-server list in a configuration that parses is *)
(* the value of its field in the document; an override of the system prompt *)
(* is the beginning of the document's system prompt, which goes on with the *)
(* contexts and the completion instruction; a field without an override     *)
(* holds the task's default; and a configuration that does not parse sets   *)
(* no field: all hold the defaults of no task.                              *)
OverridePrecedence ==
    call.op = "init" =>
        /\ PlainOverrides
        /\ ConfigGiven.system_prompt.some =>
              /\ Document.system_prompt[1] = ConfigGiven.system_prompt.v
              /\ Len(Document.system_prompt) > 1
              /\ Document.system_prompt # <<ConfigGiven.system_prompt.v>>
        /\ Defaults
        /\ ~ParseConfig(call.bytes).ok =>
              Document = create_git_optimized_config(call.self_id, None,
                                                     GitAssistantConfig_default)

(* A configuration that overrides every field, for a task with defaults of *)
(* its own                                                                  *)
OverridePrecedence_Witness ==
    /\ call.op = "init"
    /\ ParseConfig(call.bytes).ok
    /\ ConfigGiven.task = Some("commit")
    /\ \A k \in DerivedKeys : k \in Keys(call.bytes.members)
    /\ Document.temperature = "0.9"
    /\ Document.title = "custom title"

(* C19. First-writer-wins merge: every member of the configuration that no  *)
(* named field takes is in the document with the value supplied; the merge  *)
(* adds nothing else, and no member under a key the derivation produces, so *)
(* that the derived fields hold what the derivation gave them.              *)
FirstWriterWins ==
    (call.op = "init" /\ ParseConfig(call.bytes).ok) =>
        /\ \A i \in 1..Len(call.bytes.members) :
              call.bytes.members[i][1] \notin ConfigFields =>
                  \E j \in 1..Len(Document.other) :
                      Document.other[j] = call.bytes.members[i]
        /\ \A i \in 1..Len(ConfigGiven.other) :
              IF ConfigGiven.other[i][1] \in DerivedKeys
              THEN \A j \in 1..Len(Document.other) :
                       Document.other[j][1] # ConfigGiven.other[i][1]
              ELSE \E j \in 1..Len(Document.other) :
                       Document.other[j] = ConfigGiven.other[i]
        /\ \A j \in 1..Len(Document.other) :
              /\ Document.other[j][1] \notin DerivedKeys
              /\ \E i \in 1..Len(ConfigGiven.other) :
                     ConfigGiven.other[i] = Document.other[j]
        /\ PlainOverrides
        /\ Defaults

(* A configuration with two pass-through members and an override *)
FirstWriterWins_Witness ==
    /\ call.op = "init"
    /\ ParseConfig(call.bytes).ok
    /\ Len(ConfigGiven.other) = 2
    /\ Len(Document.other) = 2
    /\ ConfigGiven.title.some

(* C20. System prompt assembly: the system prompt of the document is the    *)
(* base prompt, the caller's if supplied and the default one if not, then   *)
(* the directory context exactly when a directory was supplied, then the    *)
(* task steps exactly when the task is one of the five known, then the      *)
(* completion instruction, in the MUST wording exactly when a task was      *)
(* supplied and in the optional wording when none was.                      *)
SystemPromptAssembly ==
    call.op = "init" =>
        LET c == ConfigGiven
            p == Document.system_prompt
            base == IF c.system_prompt.some
                    THEN c.system_prompt.v
                    ELSE "You are a Git Task Assistant with access to git tools."
            dir == IF c.current_directory.some
                   THEN <<"\n\nWORKING DIRECTORY: ", c.current_directory.v,
                          "\nAll git operations should be performed in this directory.">>
                   ELSE <<>>
            steps == IF c.task.some /\ c.task.v \in KnownTasks
                     THEN <<"\n\nTASK: ", c.task.v, " STEPS">>
                     ELSE <<>>
            must == "\n\nIMPORTANT: When you have completed your assigned task, you MUST call the 'task_complete' tool"
            note == "\n\nNOTE: You have access to a 'task_complete' tool. Use it if the user explicitly asks you"
        IN  /\ p = <<base>> \o dir \o steps \o <<IF c.task.some THEN must ELSE note>>
            /\ p[Len(p)] \in {must, note}
            /\ p[Len(p)] = must <=> c.task.some
            /\ p[Len(p)] = note <=> ~c.task.some

(* A caller's prompt with a directory and a known task *)
SystemPromptAssembly_Witness ==
    /\ call.op = "init"
    /\ ConfigGiven.system_prompt.some
    /\ ConfigGiven.current_directory.some
    /\ ConfigGiven.task = Some("rebase")
    /\ Len(Document.system_prompt) = 8

(* C21. Default sampling parameters: a configuration that overrides        *)
(* neither gets temperature 0.3 for task commit, 0.5 for review, 0.2 for    *)
(* rebase, 0.6 for analyze, 0.3 for cleanup, 0.7 for any other task and for *)
(* none, and max-tokens 8192 for every task; init with no configuration     *)
(* gets temperature 0.7 and max-tokens 8192.                                *)
DefaultSamplingParameters ==
    call.op = "init" =>
        /\ ~ConfigGiven.temperature.some =>
              Document.temperature =
                  CASE ConfigGiven.task = Some("commit") -> "0.3"
                    [] ConfigGiven.task = Some("review") -> "0.5"
                    [] ConfigGiven.task = Some("rebase") -> "0.2"
                    [] ConfigGiven.task = Some("analyze") -> "0.6"
                    [] ConfigGiven.task = Some("cleanup") -> "0.3"
                    [] OTHER -> "0.7"
        /\ ~ConfigGiven.max_tokens.some => Document.max_tokens = "8192"
        /\ call.bytes = NoBytes =>
              Document.temperature = "0.7" /\ Document.max_tokens = "8192"

(* A configuration for task rebase that overrides everything but the       *)
(* temperature                                                              *)
DefaultSamplingParameters_Witness ==
    /\ call.op = "init"
    /\ ConfigGiven.task = Some("rebase")
    /\ ConfigGiven.max_tokens.some
    /\ ~ConfigGiven.temperature.some
    /\ Document.temperature = "0.2"

(* C22. Callback identity in tool servers, as claimed: in the default       *)
(* tool-server list every descriptor, each of them actor-backed, carries an *)
(* init_state naming the actor's own id, and the task monitor is in the     *)
(* list.                                                                    *)
CallbackIdentity ==
    (call.op = "init" /\ ~ConfigGiven.mcp_servers.some) =>
        LET servers == Document.mcp_servers.v
        IN  /\ \A i \in 1..Len(servers) : servers[i].init_state = Some(call.self_id)
            /\ \E i \in 1..Len(servers) :
                   servers[i].manifest_path = TASK_MONITOR_MANIFEST_PATH

(* What a state blob stores besides the worker id. *)
Stored(bytes) ==
    LET s == Decoded(bytes)
    IN  [actor_id |-> s.actor_id,
         original_config |-> s.original_config,
         current_directory |-> s.current_directory,
         task |-> s.task]

(* C23. Configuration is stored verbatim and frozen: the state init returns *)
(* stores the document handed to spawn, the self id init was given, and the *)
(* task and directory of the configuration; and every step taken after a    *)
(* successful init leaves the host with a state that stores the same        *)
(* document, self id, task and directory.                                   *)
ConfigurationFrozen ==
    /\ []((call.op = "init" /\ result = "ok") =>
            /\ Decodable(state)
            /\ Stored(state) = [actor_id |-> call.self_id,
                                original_config |-> hostcalls[1].config,
                                current_directory |-> ConfigGiven.current_directory,
                                task |-> ConfigGiven.task]
            /\ Decoded(state).original_config.t = "doc")
    /\ [][phase = "created" =>
              /\ Decodable(state')
              /\ state' = state \/ Stored(state') = Stored(state)]_vars

(* A start-session with a rejected send, on the state of an init that was   *)
(* given a directory and a task                                             *)
ConfigurationFrozen_Witness ==
    /\ phase = "created"
    /\ Handled("StartChat")
    /\ Rejected(hostcalls)
    /\ Decoded(state).current_directory = Some("/repo")
    /\ Decoded(state).task = Some("commit")
    /\ Decoded(state).original_config.t = "doc"

(* C24. Channel hooks are pure: handle_channel_open answers accepted, with  *)
(* no message, for every state and payload; it, handle_channel_close and    *)
(* handle_channel_message return the bytes they were given, absent ones     *)
(* included, and make no host call.                                         *)
ChannelHooksPure ==
    /\ call.op = "handle_channel_open" =>
          accept = [some |-> TRUE, accepted |-> TRUE, message |-> None]
    /\ call.op \in {"handle_channel_open", "handle_channel_close", "handle_channel_message"} =>
          /\ result = "ok"
          /\ state = prior
          /\ Len(hostcalls) = 0
          /\ response = NoResponse

(* A channel opened on an actor that holds no state *)
ChannelHooksPure_Witness ==
    /\ call.op = "handle_channel_open"
    /\ prior = NoBytes
    /\ state = NoBytes
    /\ accept.accepted

(* C25. No respawn: an invocation requests a spawn exactly once when it is  *)
(* init and never when it is anything else, whatever came before it.        *)
NoRespawn ==
    /\ Len(Spawns) = IF call.op = "init" THEN 1 ELSE 0
    /\ \A i \in 1..Len(hostcalls) : hostcalls[i].fn = "spawn" => (i = 1 /\ call.op = "init")

(* The exit of the stored worker, right after a request whose send was      *)
(* rejected                                                                 *)
NoRespawn_Witness ==
    /\ phase = "created"
    /\ previous.rejected
    /\ call.op = "handle_child_exit"
    /\ WorkerOf(prior) = Some(call.child)
    /\ Len(Spawns) = 0

(* C26. Outbound message bound, as claimed: an invocation issues no send   *)
(* or one.                                                                  *)
OutboundAtMostOne == Len(Sends) <= 1

(* C26, amended: an invocation issues no send, one or two. It issues sends  *)
(* only when it is an add-message, or a start-session on a state with a     *)
(* task, and the state stores a worker id: then the first send is an        *)
(* add_message to the worker, and there is a second one, a                  *)
(* generate_completion to the worker, exactly when the host accepted the    *)
(* first. Every other invocation issues none.                               *)
OutboundBound ==
    /\ Len(Sends) = Len(hostcalls) \/ Len(Sends) = 0
    /\ IF NeedsWorker /\ WorkerOf(prior).some
       THEN /\ Len(Sends) = IF hostcalls[1].ok THEN 2 ELSE 1
            /\ Sends[1].type = "add_message"
            /\ Sends[1].to = WorkerOf(prior).v
            /\ hostcalls[1].ok =>
                  /\ Sends[2].type = "generate_completion"
                  /\ Sends[2].to = WorkerOf(prior).v
       ELSE Len(Sends) = 0

(* An add-message both of whose sends the host accepted, handled by an      *)
(* actor with a worker it spawned                                           *)
OutboundBound_Witness ==
    /\ phase = "created"
    /\ spawned.some
    /\ Handled("AddMessage")
    /\ Len(Sends) = 2
    /\ Sends[1].ok
    /\ Sends[2].ok
    /\ Sends[2].to = spawned.v

(* C27. start-session without a task is a no-op success: on a state that    *)
(* stores no task, with a worker id or without, a start-session gets        *)
(* success, makes no host call, and hands back the state it was given.      *)
StartSessionWithoutTask ==
    (Handled("StartChat") /\ ~Decoded(prior).task.some) =>
        /\ result = "ok"
        /\ response = Success
        /\ Len(hostcalls) = 0
        /\ Decodable(state)
        /\ Decoded(state) = Decoded(prior)
        /\ Canonical(prior) => state = prior

(* A start-session on a state with neither a task nor a worker id *)
StartSessionWithoutTask_Witness ==
    /\ Handled("StartChat")
    /\ ~Decoded(prior).task.some
    /\ ~WorkerOf(prior).some
    /\ response = Success

(* C28. Lifecycle events are not recorded in the state: handle_child_exit  *)
(* and handle_child_external_stop return the bytes they were given; and an  *)
(* add-message handled right after either, for the child that is the stored *)
(* worker, issues its add_message send to that worker id.                   *)
LifecycleNotRecorded ==
    /\ call.op \in {"handle_child_exit", "handle_child_external_stop"} =>
          /\ result = "ok"
          /\ state = prior
    /\ (/\ previous.op \in {"handle_child_exit", "handle_child_external_stop"}
        /\ previous.worker
        /\ call.op = "handle_request"
        /\ ParseRequest(call.bytes).ok
        /\ ParseRequest(call.bytes).type = "AddMessage") =>
          /\ Decodable(prior)
          /\ WorkerOf(prior).some
          /\ phase = "created" => WorkerOf(prior) = spawned
          /\ Len(hostcalls) >= 1
          /\ hostcalls[1] = Send(WorkerOf(prior).v, "add_message",
                                 ParseRequest(call.bytes).message, hostcalls[1].ok)

(* An add-message forwarded right after the exit of the stored worker *)
LifecycleNotRecorded_Witness ==
    /\ previous.op = "handle_child_exit"
    /\ previous.worker
    /\ Handled("AddMessage")
    /\ Len(Sends) = 2
    /\ Sends[1].to = spawned.v
    /\ response = Success

(* C29. start-session is not idempotent: a start-session on a state with a  *)
(* task and a worker id leaves the state as it was, and issues an           *)
(* add_message send with the task's canned message and, that send accepted, *)
(* a generate_completion send; so does a start-session that comes right     *)
(* after another one, whether that one got success or an error for a        *)
(* rejected send.                                                           *)
StartSessionNotIdempotent ==
    (Handled("StartChat") /\ Decoded(prior).task.some /\ WorkerOf(prior).some) =>
        /\ Decodable(state)
        /\ Decoded(state) = Decoded(prior)
        /\ Len(hostcalls) = IF hostcalls[1].ok THEN 2 ELSE 1
        /\ hostcalls[1] = Send(WorkerOf(prior).v, "add_message",
                               auto_message(Decoded(prior).task.v), hostcalls[1].ok)
        /\ hostcalls[1].ok =>
              hostcalls[2] = Send(WorkerOf(prior).v, "generate_completion", NoMessage,
                                  hostcalls[2].ok)
        /\ (previous.op = "handle_request" /\ previous.type = "StartChat") =>
              /\ Len(Sends) >= 1
              /\ Sends[1].type = "add_message"
              /\ Sends[1].message = auto_message(Decoded(state).task.v)

(* A start-session that sends both messages, right after one whose          *)
(* generate_completion send the host rejected                               *)
StartSessionNotIdempotent_Witness ==
    /\ previous.op = "handle_request"
    /\ previous.type = "StartChat"
    /\ previous.rejected
    /\ previous.tag = "Error"
    /\ Handled("StartChat")
    /\ Len(Sends) = 2
    /\ response = Success

====
